---- MODULE Spec2Model ----
(***************************************************************************)
(* Gap reconstruction and scale mapping of the "Vertical of Doom" and      *)
(* "Circle of Doom" dashboard components of f1-dash                        *)
(* (dash/src/components/dashboard/VerticalOfDoom.tsx, which also carries   *)
(* the CircleOfDoom component from line 403 on), together with the         *)
(* settings store that feeds them (dash/src/stores/useSettingsStore.ts).   *)
(*                                                                         *)
(* Conventions of the model                                                *)
(*  - a JavaScript string is a sequence of one-character strings;          *)
(*  - an optional value (T | undefined | null) is a sequence of length at  *)
(*    most one: None is <<>>, Some(x) is <<x>>;                            *)
(*  - a time is an integer number of milliseconds (parseSeconds yields at  *)
(*    most three fraction digits, so every parsed value is a whole number  *)
(*    of milliseconds); the settings circleG1, circleG2 and                *)
(*    circleFixedSeconds are held in milliseconds too;                     *)
(*  - a unit coordinate or an angle is an exact rational <<n, d>>, d > 0,  *)
(*    in lowest terms.  IEEE rounding of the JavaScript doubles is not     *)
(*    modelled.                                                            *)
(***************************************************************************)
EXTENDS Integers, Sequences, FiniteSets, TLC

VARIABLES
    lines,               \* timingData.lines: racing number -> TimingDataDriver
    sessionPart,         \* timingData.sessionPart (optional integer)
    circleScale,         \* settings: "piecewise" | "spread" | "fixed"
    circleG1,            \* settings: first threshold (ms)
    circleG2,            \* settings: second threshold (ms)
    circleFixedSeconds,  \* settings: fixed-mode denominator (ms)
    circleTopN,          \* settings: number of displayed drivers, 0 = all
    circleLayout         \* settings: "circle" | "vertical"

vars == <<lines, sessionPart, circleScale, circleG1, circleG2,
          circleFixedSeconds, circleTopN, circleLayout>>

settingsVars == <<circleScale, circleG1, circleG2, circleFixedSeconds,
                  circleTopN, circleLayout>>

----------------------------------------------------------------------------
(* Bounds of the model *)

\* sessionPart ranges over absent and -1 .. MaxSessionPart
MaxSessionPart == 2

\* circleTopN ranges over -1 .. MaxTopN
MaxTopN == 2

\* longest string of the exhaustive parser inputs
MaxInputLen == 3

\* the racing numbers of the cars in the feed (keys of timingData.lines)
RacingNumbers == {1, 4, 16}

----------------------------------------------------------------------------
(* Optional values *)

None == <<>>

Some(x) == <<x>>

\* a ?? b for optional values
Coalesce(a, b) == IF a # None THEN a ELSE b

\* JavaScript truthiness of an optional string: undefined and "" are falsy
TruthyStr(s) == s # None /\ s[1] # <<>>

----------------------------------------------------------------------------
(* Strings *)

DigitChars == <<"0", "1", "2", "3", "4", "5", "6", "7", "8", "9">>

IsDigit(c) == \E i \in 1..10 : DigitChars[i] = c

DigitVal(c) == (CHOOSE i \in 1..10 : DigitChars[i] = c) - 1

\* \d+ over the whole sequence
IsDigits(s) == Len(s) >= 1 /\ \A i \in 1..Len(s) : IsDigit(s[i])

\* parseInt(s, 10) of a digit string
RECURSIVE parseInt(_)
parseInt(s) ==
    IF s = <<>> THEN 0
    ELSE 10 * parseInt(SubSeq(s, 1, Len(s) - 1)) + DigitVal(s[Len(s)])

IsSpace(c) == c \in {" ", "\t", "\n"}

\* String.prototype.trim
RECURSIVE trim(_)
trim(s) ==
    IF s = <<>> THEN s
    ELSE IF IsSpace(s[1]) THEN trim(Tail(s))
    ELSE IF IsSpace(s[Len(s)]) THEN trim(SubSeq(s, 1, Len(s) - 1))
    ELSE s

\* the fraction digits taken as they are, with no padding
padEndNone(s) == s

\* hms[3].padEnd(3, "0")
padEnd3(s) ==
    IF Len(s) >= 3 THEN s
    ELSE IF Len(s) = 2 THEN s \o <<"0">>
    ELSE IF Len(s) = 1 THEN s \o <<"0", "0">>
    ELSE <<"0", "0", "0">>

\* /[0-9]+L/i.test(s): a digit directly followed by L or l, anywhere in s
LapBehindPattern(s) ==
    \E i \in 1..(Len(s) - 1) : IsDigit(s[i]) /\ s[i + 1] \in {"L", "l"}

\* The remainder of both grammars: <digits>(?:\.(\d{1,3}))?$ with the integer
\* part of 1..maxInt digits.  Yields None, or Some(<<integer part, fraction>>).
MatchSecs(v, maxInt) ==
    LET dots == {i \in 1..Len(v) : v[i] = "."}
    IN  IF dots = {}
        THEN IF IsDigits(v) /\ Len(v) <= maxInt THEN Some(<<v, <<>>>>) ELSE None
        ELSE LET i == CHOOSE j \in dots : \A k \in dots : j <= k
                 ip == SubSeq(v, 1, i - 1)
                 fr == SubSeq(v, i + 1, Len(v))
             IN  IF IsDigits(ip) /\ Len(ip) <= maxInt /\ IsDigits(fr) /\ Len(fr) <= 3
                 THEN Some(<<ip, fr>>)
                 ELSE None

\* ms = hms[3] ? parseInt(hms[3].padEnd(3, "0"), 10) : 0
FractionMs(fr) == IF fr = <<>> THEN 0 ELSE parseInt(padEnd3(fr))

\* v.match(/^(\d+):(\d{1,2})(?:\.(\d{1,3}))?$/) and
\* v.match(/^(\d+)(?:\.(\d{1,3}))?$/), and the value built from the groups,
\* in milliseconds; None when neither matches.
UnsignedMs(v) ==
    LET colons == {i \in 1..Len(v) : v[i] = ":"}
        c      == CHOOSE j \in colons : \A k \in colons : j <= k
        mins   == SubSeq(v, 1, c - 1)
        hms    == IF colons # {} /\ IsDigits(mins)
                  THEN MatchSecs(SubSeq(v, c + 1, Len(v)), 2)
                  ELSE None
        ss     == MatchSecs(v, Len(v) + 1)
    IN  IF hms # None
        THEN Some(parseInt(mins) * 60000 + parseInt(hms[1][1]) * 1000
                  + FractionMs(hms[1][2]))
        ELSE IF ss # None
        THEN Some(parseInt(ss[1][1]) * 1000 + FractionMs(ss[1][2]))
        ELSE None

\* a parser that strips a sign when there is one and does not require it
parseSecondsSignOptional(input) ==
    IF ~TruthyStr(input) THEN None
    ELSE LET s == trim(input[1])
         IN  IF LapBehindPattern(s) THEN None
             ELSE IF s = <<>> THEN None
             ELSE LET sign == IF s[1] = "-" THEN -1 ELSE 1
                      v    == IF s[1] \in {"+", "-"} THEN Tail(s) ELSE s
                      u    == UnsignedMs(v)
                  IN  IF u = None THEN None ELSE Some(sign * u[1])

\* parseSeconds(input?: string): number | null, the result in milliseconds
parseSeconds(input) ==
    IF ~TruthyStr(input) THEN None
    ELSE LET s == trim(input[1])
         IN  IF LapBehindPattern(s) THEN None
             ELSE IF s = <<>> \/ s[1] \notin {"+", "-"} THEN None
             ELSE LET sign == IF s[1] = "-" THEN -1 ELSE 1
                      u    == UnsignedMs(Tail(s))
                  IN  IF u = None THEN None ELSE Some(sign * u[1])

\* a lap time parser that matches the input as given, without s = input.trim()
parseLapTimeUntrimmed(input) ==
    IF ~TruthyStr(input) THEN None ELSE UnsignedMs(input[1])

\* parseLapTimeToSeconds(input?: string): number | null, the result in
\* milliseconds
parseLapTimeToSeconds(input) ==
    IF ~TruthyStr(input) THEN None ELSE UnsignedMs(trim(input[1]))

Max(a, b) == IF a >= b THEN a ELSE b

Min(a, b) == IF a <= b THEN a ELSE b

----------------------------------------------------------------------------
(* The timing snapshot *)

\* A TimingDataDriver as the components read it.  intervalToPositionAhead,
\* lastLapTime and bestLapTime hold the optional .value of the feed's objects
\* (the components read them only through ?.value); stats is an optional
\* array of records.
Line(rn, pos, gtl, st, tdf, ival, tdpa, last, best) ==
    [racingNumber            |-> rn,
     position                |-> pos,
     gapToLeader             |-> gtl,
     stats                   |-> st,
     timeDiffToFastest       |-> tdf,
     intervalToPositionAhead |-> ival,
     timeDiffToPositionAhead |-> tdpa,
     lastLapTime             |-> last,
     bestLapTime             |-> best]

Stat(tdf, tdpa) == [timeDiffToFastest |-> tdf, timeDifftoPositionAhead |-> tdpa]

\* The elements of a finite set of integers in ascending order: the order in
\* which Object.values enumerates integer-like keys.
RECURSIVE Ascending(_)
Ascending(S) ==
    IF S = {} THEN <<>>
    ELSE LET m == CHOOSE x \in S : \A y \in S : x <= y
         IN  <<m>> \o Ascending(S \ {m})

\* Object.values(drivers)
ObjectValues(drivers) ==
    LET keys == Ascending(DOMAIN drivers)
    IN  [i \in 1..Len(keys) |-> drivers[keys[i]]]

\* .filter((d) => !!d.position)
HasPosition(d) == TruthyStr(d.position)

\* a comparator that looks at the first character of the positions only
ComparePositionFirstChar(a, b) ==
    DigitVal(a.position[1][1]) - DigitVal(b.position[1][1])

\* the comparator (a, b) => parseInt(a.position) - parseInt(b.position)
ComparePosition(a, b) == parseInt(a.position[1]) - parseInt(b.position[1])

\* Array.prototype.sort is stable: d goes behind every element that does not
\* compare greater than it.
RECURSIVE InsertSorted(_, _)
InsertSorted(sorted, d) ==
    IF sorted = <<>> THEN <<d>>
    ELSE IF ComparePosition(sorted[Len(sorted)], d) <= 0 THEN Append(sorted, d)
    ELSE Append(InsertSorted(SubSeq(sorted, 1, Len(sorted) - 1), d),
                sorted[Len(sorted)])

RECURSIVE SortByPosition(_)
SortByPosition(ds) ==
    IF ds = <<>> THEN <<>>
    ELSE InsertSorted(SortByPosition(SubSeq(ds, 1, Len(ds) - 1)), ds[Len(ds)])

\* getDriverOrder(timing?.lines); a snapshot without lines is the empty map
getDriverOrder(drivers) ==
    SortByPosition(SelectSeq(ObjectValues(drivers), HasPosition))

----------------------------------------------------------------------------
(* Gap reconstruction *)

\* d.stats && sessionPart ? d.stats[Math.max(0, sessionPart - 1)]?.<field>
\*                        : undefined
\* The two functions below read a different field of the same element.
StatsTruthy(d, sp) == d.stats # None /\ sp # None /\ sp[1] # 0

StatsElement(d, sp) ==
    LET idx == Max(0, sp[1] - 1) + 1
    IN  IF StatsTruthy(d, sp) /\ idx <= Len(d.stats[1])
        THEN Some(d.stats[1][idx])
        ELSE None

getGapToLeaderSeconds(d, sp) ==
    LET e == StatsElement(d, sp)
    IN  Coalesce(parseSeconds(d.gapToLeader),
        Coalesce(parseSeconds(IF e # None THEN e[1].timeDiffToFastest ELSE None),
                 parseSeconds(d.timeDiffToFastest)))

getIntervalAheadSeconds(d, sp) ==
    LET e == StatsElement(d, sp)
    IN  Coalesce(parseSeconds(d.intervalToPositionAhead),
        Coalesce(parseSeconds(IF e # None THEN e[1].timeDifftoPositionAhead ELSE None),
                 parseSeconds(d.timeDiffToPositionAhead)))

\* new Map(); an absent key reads as undefined
EmptyMap == [k \in {} |-> 0]

\* gaps.set(key, value)
MapSet(m, key, value) == [k \in DOMAIN m \cup {key} |-> IF k = key THEN value ELSE m[k]]

\* gaps.get(key) ?? 0
MapGetOr0(m, key) == IF key \in DOMAIN m THEN m[key] ELSE 0

\* GapStep with the clamp of the chained sum left out
GapStepUnclamped(gaps, ord, sp, i) ==
    LET d      == ord[i]
        direct == getGapToLeaderSeconds(d, sp)
    IN  IF direct # None
        THEN MapSet(gaps, d.racingNumber, Max(0, direct[1]))
        ELSE LET prev    == ord[i - 1]
                 prevGap == MapGetOr0(gaps, prev.racingNumber)
                 step    == getIntervalAheadSeconds(d, sp)
             IN  MapSet(gaps, d.racingNumber,
                        prevGap + (IF step # None THEN step[1] ELSE 0))

\* The body of the loop of computeGapsSeconds for index i (1-based, i >= 2),
\* applied to the map built so far.
GapStep(gaps, ord, sp, i) ==
    LET d      == ord[i]
        direct == getGapToLeaderSeconds(d, sp)
    IN  IF direct # None
        THEN MapSet(gaps, d.racingNumber, Max(0, direct[1]))
        ELSE LET prev    == ord[i - 1]
                 prevGap == MapGetOr0(gaps, prev.racingNumber)
                 step    == getIntervalAheadSeconds(d, sp)
             IN  MapSet(gaps, d.racingNumber,
                        Max(0, prevGap + (IF step # None THEN step[1] ELSE 0)))

\* GapsUpTo with the leader resolved from its own direct signal, as the loop
\* resolves the other drivers
RECURSIVE GapsUpToLeaderResolved(_, _, _)
GapsUpToLeaderResolved(ord, sp, n) ==
    IF n = 0 THEN EmptyMap
    ELSE IF n = 1
    THEN LET direct == getGapToLeaderSeconds(ord[1], sp)
         IN  MapSet(EmptyMap, ord[1].racingNumber,
                    IF direct # None THEN Max(0, direct[1]) ELSE 0)
    ELSE GapStep(GapsUpToLeaderResolved(ord, sp, n - 1), ord, sp, n)

\* the map after the first n drivers have been processed
RECURSIVE GapsUpTo(_, _, _)
GapsUpTo(ord, sp, n) ==
    IF n = 0 THEN EmptyMap
    ELSE IF n = 1 THEN MapSet(EmptyMap, ord[1].racingNumber, 0)
    ELSE GapStep(GapsUpTo(ord, sp, n - 1), ord, sp, n)

\* computeGapsSeconds(ordered, sessionPart)
computeGapsSeconds(ord, sp) == GapsUpTo(ord, sp, Len(ord))

----------------------------------------------------------------------------
(* Exact rationals <<n, d>>, d > 0, in lowest terms *)

RECURSIVE GCD(_, _)
GCD(a, b) == IF b = 0 THEN a ELSE GCD(b, a % b)

Abs(n) == IF n < 0 THEN -n ELSE n

Rat(n, d) ==
    LET s == IF d < 0 THEN -1 ELSE 1
        g == GCD(Abs(n), Abs(d))
    IN  <<(s * n) \div g, (s * d) \div g>>

RInt(n) == <<n, 1>>

RMul(a, b) == Rat(a[1] * b[1], a[2] * b[2])

RAdd(a, b) == Rat(a[1] * b[2] + b[1] * a[2], a[2] * b[2])

RInv(a) == Rat(a[2], a[1])

RLe(a, b) == a[1] * b[2] <= b[1] * a[2]

RLt(a, b) == a[1] * b[2] < b[1] * a[2]

RMin(a, b) == IF RLe(a, b) THEN a ELSE b

----------------------------------------------------------------------------
(* What both components derive from the stores.  A useMemo / useCallback   *)
(* value is an operator of the values it is computed from.                 *)

\* x || dflt for a number x (0 is falsy)
OrDefault(x, dflt) == IF x # 0 THEN x ELSE dflt

\* Math.max(...values) of a non-empty sequence
SeqMax(s) == CHOOSE x \in {s[i] : i \in 1..Len(s)} : \A i \in 1..Len(s) : s[i] <= x

\* visible with the Top N cutoff ignored: every ordered driver
visibleAll(ord, topN) == ord

\* const n = topN && topN > 0 ? Math.min(topN, ordered.length) : ordered.length;
\* ordered.slice(0, n)
visible(ord, topN) ==
    LET n == IF topN # 0 /\ topN > 0 THEN Min(topN, Len(ord)) ELSE Len(ord)
    IN  SubSeq(ord, 1, n)

\* visible.map((d) => gaps.get(d.racingNumber) ?? 0)
visibleGaps(vis, gps) == [i \in 1..Len(vis) |-> MapGetOr0(gps, vis[i].racingNumber)]

\* G1 without the floor of half a second
G1Unfloored(g1Setting, g2Setting) ==
    Min(OrDefault(g1Setting, 3000), OrDefault(g2Setting, 15000))

\* Math.max(0.5, Math.min(g1Setting || 3, g2Setting || 15))
G1(g1Setting, g2Setting) ==
    Max(500, Min(OrDefault(g1Setting, 3000), OrDefault(g2Setting, 15000)))

\* G2 as configured, not raised above G1
G2AsConfigured(g1, g2Setting) == OrDefault(g2Setting, 15000)

\* Math.max(G1 + 0.5, g2Setting || 15)
G2(g1, g2Setting) == Max(g1 + 500, OrDefault(g2Setting, 15000))

\* fixedBase without the floor of one second
fixedBaseUnfloored(fixedSec) == OrDefault(fixedSec, 30000)

\* Math.max(1, fixedSec || 30)
fixedBase(fixedSec) == Max(1000, OrDefault(fixedSec, 30000))

\* maxGap taken from the last visible driver, as if gaps grew with the rank
maxGapOfLast(vis, gps) ==
    IF Len(vis) = 0 THEN 0 ELSE Max(0, MapGetOr0(gps, vis[Len(vis)].racingNumber))

\* Math.max(...visible.map((d) => gaps.get(d.racingNumber) ?? 0), 0)
maxGap(vis, gps) == SeqMax(visibleGaps(vis, gps) \o <<0>>)

----------------------------------------------------------------------------
(* VerticalOfDoom *)

\* values.length ? Math.max(...values) : 0   (every value is finite)
spreadSeconds(vis, gps) ==
    LET values == visibleGaps(vis, gps)
    IN  IF Len(values) # 0 THEN SeqMax(values) ELSE 0

\* Math.max(1, spreadSeconds || 1)
spreadBase(spread) == Max(1000, OrDefault(spread, 1000))

\* mapGapToUnit with the second segment measured from 0 instead of from G1
mapGapToUnitFromZero(gap, scaleType, g1, g2, fixedSec, spread) ==
    IF gap <= 0 THEN RInt(0)
    ELSE IF scaleType = "piecewise"
    THEN IF gap <= g1 THEN RMul(Rat(gap, g1), Rat(7, 10))
         ELSE IF gap <= g2
         THEN RAdd(Rat(7, 10), RMul(Rat(gap, g2), Rat(3, 10)))
         ELSE RInt(1)
    ELSE LET base == IF scaleType = "fixed" THEN fixedBase(fixedSec)
                     ELSE spreadBase(spread)
         IN  RMin(RInt(1), Rat(gap, base))

\* mapGapToUnit with the second segment added without its offset of 0.7
mapGapToUnitNoOffset(gap, scaleType, g1, g2, fixedSec, spread) ==
    IF gap <= 0 THEN RInt(0)
    ELSE IF scaleType = "piecewise"
    THEN IF gap <= g1 THEN RMul(Rat(gap, g1), Rat(7, 10))
         ELSE IF gap <= g2
         THEN RMul(Rat(gap - g1, g2 - g1), Rat(3, 10))
         ELSE RInt(1)
    ELSE LET base == IF scaleType = "fixed" THEN fixedBase(fixedSec)
                     ELSE spreadBase(spread)
         IN  RMin(RInt(1), Rat(gap, base))

mapGapToUnit(gap, scaleType, g1, g2, fixedSec, spread) ==
    IF gap <= 0 THEN RInt(0)
    ELSE IF scaleType = "piecewise"
    THEN IF gap <= g1 THEN RMul(Rat(gap, g1), Rat(7, 10))
         ELSE IF gap <= g2
         THEN RAdd(Rat(7, 10), RMul(Rat(gap - g1, g2 - g1), Rat(3, 10)))
         ELSE RInt(1)
    ELSE LET base == IF scaleType = "fixed" THEN fixedBase(fixedSec)
                     ELSE spreadBase(spread)
         IN  RMin(RInt(1), Rat(gap, base))

piecewiseStretch(scaleType, vis, gps, g1, g2, fixedSec, spread) ==
    IF scaleType # "piecewise" THEN RInt(1)
    ELSE LET base == mapGapToUnit(maxGap(vis, gps), scaleType, g1, g2, fixedSec, spread)
         IN  IF RLe(base, RInt(0)) \/ RLe(RInt(1), base) THEN RInt(1)
             ELSE RInv(base)

\* baseSec of dots (and of the overflow label)
baseSec(scaleType, g2, fixedSec, spread) ==
    IF scaleType = "piecewise" THEN g2
    ELSE IF scaleType = "fixed" THEN fixedBase(fixedSec)
    ELSE spreadBase(spread)

\* Dot with a driver flagged as soon as its gap reaches the denominator
DotFlaggedAtBase(d, gps, scaleType, g1, g2, fixedSec, spread, stretch) ==
    LET gap == MapGetOr0(gps, d.racingNumber)
        u   == RMul(mapGapToUnit(gap, scaleType, g1, g2, fixedSec, spread),
                    IF scaleType = "piecewise" THEN stretch ELSE RInt(1))
    IN  [racingNumber |-> d.racingNumber,
         y            |-> RMin(RInt(1), u),
         gap          |-> gap,
         overMax      |-> gap >= baseSec(scaleType, g2, fixedSec, spread)]

\* one element of dots: the fields the layout depends on
Dot(d, gps, scaleType, g1, g2, fixedSec, spread, stretch) ==
    LET gap == MapGetOr0(gps, d.racingNumber)
        u   == RMul(mapGapToUnit(gap, scaleType, g1, g2, fixedSec, spread),
                    IF scaleType = "piecewise" THEN stretch ELSE RInt(1))
    IN  [racingNumber |-> d.racingNumber,
         y            |-> RMin(RInt(1), u),
         gap          |-> gap,
         overMax      |-> gap > baseSec(scaleType, g2, fixedSec, spread)]

\* for (let s = step; s < limit + 1e-6; s += step): the values of s (ms)
StepsUpTo(step, limit) == [k \in 1..(Max(0, limit) \div step) |-> k * step]

\* the seconds the axis has ticks for, minor ticks first, for the denominator
\* base of the fixed and the spread mode
tickSeconds(scaleType, g1, g2, base) ==
    LET minorOf(limit) == [k \in 1..Len(StepsUpTo(500, limit)) |->
                             [sec |-> StepsUpTo(500, limit)[k], major |-> FALSE]]
        majorOf(limit) == [k \in 1..Len(StepsUpTo(1000, limit)) |->
                             [sec |-> StepsUpTo(1000, limit)[k], major |-> TRUE]]
    IN  IF scaleType = "piecewise" THEN minorOf(g1) \o majorOf(g2)
        ELSE LET limit == Min(30000, (base \div 1000) * 1000)
             IN  (IF base <= 12000 THEN minorOf(limit) ELSE <<>>) \o majorOf(limit)

\* pushTick(sec, major) of VerticalOfDoom: the unit the tick is drawn at
pushTick(sec, scaleType, g1, g2, fixedSec, spread, stretch) ==
    LET u == RMul(mapGapToUnit(sec, scaleType, g1, g2, fixedSec, spread),
                  IF scaleType = "piecewise" THEN stretch ELSE RInt(1))
    IN  RMin(RInt(1), u)

\* the ticks of VerticalOfDoom
ticks(scaleType, g1, g2, fixedSec, spread, stretch) ==
    LET base == IF scaleType = "fixed" THEN fixedBase(fixedSec) ELSE spreadBase(spread)
        secs == tickSeconds(scaleType, g1, g2, base)
    IN  [i \in 1..Len(secs) |->
            [sec   |-> secs[i].sec,
             major |-> secs[i].major,
             y     |-> pushTick(secs[i].sec, scaleType, g1, g2, fixedSec, spread,
                                stretch)]]

\* What one render of VerticalOfDoom computes from the two stores.
VerticalOfDoom ==
    LET ord     == getDriverOrder(lines)
        gps     == computeGapsSeconds(ord, sessionPart)
        vis     == visible(ord, circleTopN)
        g1      == G1(circleG1, circleG2)
        g2      == G2(g1, circleG2)
        spread  == spreadSeconds(vis, gps)
        stretch == piecewiseStretch(circleScale, vis, gps, g1, g2,
                                    circleFixedSeconds, spread)
    IN  [ordered          |-> ord,
         gaps             |-> gps,
         visible          |-> vis,
         G1               |-> g1,
         G2               |-> g2,
         spreadSeconds    |-> spread,
         piecewiseStretch |-> stretch,
         dots             |-> [i \in 1..Len(vis) |->
                                 Dot(vis[i], gps, circleScale, g1, g2,
                                     circleFixedSeconds, spread, stretch)]]

----------------------------------------------------------------------------
(* CircleOfDoom *)

\* getLapSecondsForLeader(leader), leader = ordered[0] (undefined when empty)
getLapSecondsForLeader(ord) ==
    LET last == parseSeconds(IF Len(ord) > 0 THEN ord[1].lastLapTime ELSE None)
        best == parseSeconds(IF Len(ord) > 0 THEN ord[1].bestLapTime ELSE None)
    IN  IF last # None /\ last[1] # 0 /\ last[1] > 10000 THEN last[1]
        ELSE IF best # None /\ best[1] # 0 /\ best[1] > 10000 THEN best[1]
        ELSE 90000

\* const max = values.length ? Math.max(...values) : 0;
\* return max > 0 ? max : lapSeconds || 90;
circleSpreadSeconds(vis, gps, lapSeconds) ==
    LET values == visibleGaps(vis, gps)
        max    == IF Len(values) # 0 THEN SeqMax(values) ELSE 0
    IN  IF max > 0 THEN max ELSE OrDefault(lapSeconds, 90000)

mapGapToAngle(gap, scaleType, g1, g2, fixedSec, spread) ==
    IF gap <= 0 THEN RInt(0)
    ELSE IF scaleType = "piecewise"
    THEN IF gap <= g1 THEN RMul(Rat(gap, g1), RInt(240))
         ELSE IF gap <= g2
         THEN RAdd(RInt(240), RMul(Rat(gap - g1, g2 - g1), RInt(120)))
         ELSE RInt(360)
    ELSE LET base == IF scaleType = "fixed" THEN fixedBase(fixedSec) ELSE spread
         IN  RMin(RInt(360), RMul(Rat(gap, base), RInt(360)))

circlePiecewiseStretch(scaleType, vis, gps, g1Setting, g2Setting) ==
    IF scaleType # "piecewise" THEN RInt(1)
    ELSE LET tG1 == Max(500, Min(OrDefault(g1Setting, 3000), OrDefault(g2Setting, 15000)))
             tG2 == Max(tG1 + 500, OrDefault(g2Setting, 15000))
             mx  == maxGap(vis, gps)
             baseAngle ==
                 IF mx <= 0 THEN RInt(0)
                 ELSE IF mx <= tG1 THEN RMul(Rat(mx, tG1), RInt(240))
                 ELSE IF mx <= tG2
                 THEN RAdd(RInt(240), RMul(Rat(mx - tG1, tG2 - tG1), RInt(120)))
                 ELSE RInt(360)
         IN  IF RLe(baseAngle, RInt(0)) \/ RLe(RInt(360), baseAngle) THEN RInt(1)
             ELSE RMul(RInt(360), RInv(baseAngle))

\* base of dots (and of the overflow label)
circleBase(scaleType, g2, fixedSec, spread) ==
    IF scaleType = "piecewise" THEN g2
    ELSE IF scaleType = "fixed" THEN fixedBase(fixedSec)
    ELSE spread

\* CircleDot with the angle capped at 360 instead of 359.9
CircleDotFullTurn(d, gps, scaleType, g1, g2, fixedSec, spread, stretch) ==
    LET gap == MapGetOr0(gps, d.racingNumber)
        raw == mapGapToAngle(gap, scaleType, g1, g2, fixedSec, spread)
    IN  [racingNumber |-> d.racingNumber,
         angle        |-> RMin(RInt(360),
                               IF scaleType = "piecewise" THEN RMul(raw, stretch)
                               ELSE raw),
         gap          |-> gap,
         overMax      |-> gap > circleBase(scaleType, g2, fixedSec, spread)]

CircleDot(d, gps, scaleType, g1, g2, fixedSec, spread, stretch) ==
    LET gap == MapGetOr0(gps, d.racingNumber)
        raw == mapGapToAngle(gap, scaleType, g1, g2, fixedSec, spread)
    IN  [racingNumber |-> d.racingNumber,
         angle        |-> RMin(Rat(3599, 10),
                               IF scaleType = "piecewise" THEN RMul(raw, stretch)
                               ELSE raw),
         gap          |-> gap,
         overMax      |-> gap > circleBase(scaleType, g2, fixedSec, spread)]

\* the angle a tick of CircleOfDoom is pushed with
circleTickAngle(sec, scaleType, g1, g2, fixedSec, spread, stretch) ==
    LET raw == mapGapToAngle(sec, scaleType, g1, g2, fixedSec, spread)
    IN  IF scaleType = "piecewise" THEN RMin(RInt(360), RMul(raw, stretch))
        ELSE raw

\* the ticks of CircleOfDoom
circleTicks(scaleType, g1, g2, fixedSec, spread, stretch) ==
    LET base == IF scaleType = "fixed" THEN fixedBase(fixedSec) ELSE spread
        secs == tickSeconds(scaleType, g1, g2, base)
    IN  [i \in 1..Len(secs) |->
            [sec   |-> secs[i].sec,
             major |-> secs[i].major,
             angle |-> circleTickAngle(secs[i].sec, scaleType, g1, g2, fixedSec,
                                       spread, stretch)]]

\* What one render of CircleOfDoom computes from the two stores.
CircleOfDoom ==
    LET ord     == getDriverOrder(lines)
        lap     == getLapSecondsForLeader(ord)
        gps     == computeGapsSeconds(ord, sessionPart)
        vis     == visible(ord, circleTopN)
        g1      == G1(circleG1, circleG2)
        g2      == G2(g1, circleG2)
        spread  == circleSpreadSeconds(vis, gps, lap)
        stretch == circlePiecewiseStretch(circleScale, vis, gps, circleG1, circleG2)
    IN  [ordered          |-> ord,
         lapSeconds       |-> lap,
         gaps             |-> gps,
         visible          |-> vis,
         G1               |-> g1,
         G2               |-> g2,
         spreadSeconds    |-> spread,
         piecewiseStretch |-> stretch,
         dots             |-> [i \in 1..Len(vis) |->
                                 CircleDot(vis[i], gps, circleScale, g1, g2,
                                           circleFixedSeconds, spread, stretch)]]

----------------------------------------------------------------------------
(* The feed: the strings and lines the model draws its snapshots from *)

StrPlus1 == Some(<<"+", "1", ".", "0">>)   \* "+1.0"

StrMinus2 == Some(<<"-", "2", ".", "0">>)   \* "-2.0"

StrLap == Some(<<"+", "1", "L">>)   \* "+1L"

StrUnsigned == Some(<<"1", ".", "2", "3", "4">>)   \* "1.234"

StrZero == Some(<<"+", "0", ".", "0">>)   \* "+0.0"

StrPlus2_5 == Some(<<"+", "2", ".", "5">>)   \* "+2.5"

StrPlus3 == Some(<<"+", "3", ".", "0">>)   \* "+3.0"

StrPlus0_5 == Some(<<"+", "0", ".", "5">>)   \* "+0.5"

StrMinus4 == Some(<<"-", "4", ".", "0">>)   \* "-4.0"

StrPlus0_25 == Some(<<"+", "0", ".", "2", "5">>)   \* "+0.25"

StrPlus0_75 == Some(<<"+", "0", ".", "7", "5">>)   \* "+0.75"

StrMinute == Some(<<"+", "1", ":", "0", "2", ".", "5", "0", "0">>)   \* "+1:02.500"

StrMinus0_5 == Some(<<"-", "0", ".", "5">>)   \* "-0.5"

StrPlus5 == Some(<<"+", "5", ".", "0">>)   \* "+5.0"

StrLapTime == Some(<<"1", ":", "2", "0", ".", "9", "0", "1">>)   \* "1:20.901"

StrPlus20 == Some(<<"+", "2", "0", ".", "0", "0", "0">>)   \* "+20.000"

StrPlus11 == Some(<<"+", "1", "1", ".", "0">>)   \* "+11.0"

\* The feed's grid: racing number 4 runs first, 1 second, 16 third.
PositionOf(rn) ==
    IF rn = 4 THEN Some(<<"1">>)
    ELSE IF rn = 1 THEN Some(<<"2">>)
    ELSE IF rn = 16 THEN Some(<<"3">>)
    ELSE Some(<<"4">>)

\* a line with timing signals only
Signals(rn, pos, gtl, st, tdf, ival, tdpa) ==
    Line(rn, pos, gtl, st, tdf, ival, tdpa, None, None)

\* stats arrays of the feed
StatsBoth == Some(<<Stat(StrPlus2_5, StrPlus0_25)>>)

StatsSecond == Some(<<Stat(None, None), Stat(StrMinus0_5, StrPlus0_75)>>)

StatsAhead == Some(<<Stat(None, StrPlus0_25)>>)

StatsEmpty == Some(<<>>)

\* the lines of car rn in the snapshots of the gap reconstruction
GapLines(rn) ==
    LET p == PositionOf(rn)
    IN  { Signals(rn, p, None, None, None, None, None),
          Signals(rn, p, StrPlus1, None, None, None, None),
          Signals(rn, p, StrMinus2, None, None, StrPlus0_5, None),
          Signals(rn, p, StrZero, StatsBoth, StrPlus3, StrPlus0_5, None),
          Signals(rn, p, StrLap, StatsBoth, StrPlus3, None, StrPlus0_75),
          Signals(rn, p, StrUnsigned, None, StrPlus3, StrPlus0_5, None),
          Signals(rn, p, None, StatsSecond, None, None, None),
          Signals(rn, p, None, None, None, StrPlus0_5, None),
          Signals(rn, p, None, None, None, StrMinus4, None),
          Signals(rn, p, None, StatsAhead, None, None, StrPlus0_75),
          Signals(rn, p, None, None, None, StrLap, StrPlus0_75),
          Signals(rn, p, None, StatsEmpty, StrPlus3, None, None),
          Signals(rn, p, StrMinute, None, None, None, None),
          Signals(rn, None, StrPlus1, None, None, None, None) }

\* the lines of car rn in the snapshots of the scale mapping: a direct gap or none
ScaleLines(rn) ==
    { Signals(rn, PositionOf(rn), g, None, None, None, None) :
        g \in {None, StrPlus0_5, StrPlus3, StrPlus5} }

\* the lines of car rn in the snapshots of the spread mode: a direct gap, lap times
SpreadLines(rn) ==
    LET p == PositionOf(rn)
    IN  { Line(rn, p, None, None, None, None, None, None, None),
          Line(rn, p, StrPlus0_5, None, None, None, None, StrLapTime, None),
          Line(rn, p, StrPlus3, None, None, None, None, None, None),
          Line(rn, p, StrPlus5, None, None, None, None, StrPlus20, StrPlus11),
          Line(rn, p, None, None, None, None, None, StrLapTime, None),
          Line(rn, p, None, None, None, None, None, StrPlus20, None),
          Line(rn, p, None, None, None, None, None, StrPlus5, StrPlus11),
          Line(rn, p, StrPlus0_25, None, None, None, None, None, None) }

\* a snapshot in which every car has a line with a position and no signal
BlankGrid == [rn \in RacingNumbers |-> Signals(rn, PositionOf(rn), None, None, None, None, None)]

SessionParts == {None} \cup {Some(p) : p \in (-1)..MaxSessionPart}

ScaleModes == {"piecewise", "spread", "fixed"}

Layouts == {"circle", "vertical"}

G1Settings == {-1000, 0, 3000, 20000}

G2Settings == {-5000, 0, 5000, 15000}

FixedSettings == {-5000, 0, 500, 3000, 30000}

TopNSettings == (-1)..MaxTopN

\* the characters of the exhaustive parser inputs
InputChars == {"+", "-", "0", "1", ":", ".", "L", " "}

\* every string over InputChars of at most MaxInputLen characters
ShortInputs == UNION {[1..n -> InputChars] : n \in 0..MaxInputLen}

\* the parts the longer parser inputs are composed of
SignParts == {<<>>, <<"+">>, <<"-">>, <<" ", "+">>, <<" ">>}

MinuteParts == {<<>>, <<"1", ":">>, <<"1", "2", ":">>, <<":">>}

SecondParts == {<<>>, <<"0">>, <<"2">>, <<"0", "2">>, <<"7", "5">>, <<"1", "2", "3">>}

FractionParts ==
    {<<>>, <<".">>, <<".", "5">>, <<".", "0", "5">>, <<".", "5", "0", "0">>,
     <<".", "2", "5", "0">>, <<".", "2", "5", "0", "0">>}

TailParts == {<<>>, <<"L">>, <<"l">>, <<" ">>, <<"s">>}

ComposedInputs ==
    {sg \o mi \o se \o fr \o tl :
        sg \in SignParts, mi \in MinuteParts, se \in SecondParts,
        fr \in FractionParts, tl \in TailParts}

\* the values of a string field of the feed: absent, or one of the strings
InputValues == {None} \cup {Some(s) : s \in ShortInputs \cup ComposedInputs}

----------------------------------------------------------------------------
(* Operations *)

\* the live feed replaces the line of car rn in timingData.lines
UpdateLine(rn, d) ==
    /\ lines' = MapSet(lines, rn, d)
    /\ UNCHANGED <<sessionPart, settingsVars>>

\* the live feed sets timingData.sessionPart
UpdateSessionPart(sp) ==
    /\ sessionPart' = sp
    /\ UNCHANGED <<lines, settingsVars>>

setCircleScale(mode) ==
    /\ circleScale' = mode
    /\ UNCHANGED <<lines, sessionPart, circleG1, circleG2, circleFixedSeconds,
                   circleTopN, circleLayout>>

setCircleG1(g1) ==
    /\ circleG1' = g1
    /\ UNCHANGED <<lines, sessionPart, circleScale, circleG2, circleFixedSeconds,
                   circleTopN, circleLayout>>

setCircleG2(g2) ==
    /\ circleG2' = g2
    /\ UNCHANGED <<lines, sessionPart, circleScale, circleG1, circleFixedSeconds,
                   circleTopN, circleLayout>>

setCircleFixedSeconds(sec) ==
    /\ circleFixedSeconds' = sec
    /\ UNCHANGED <<lines, sessionPart, circleScale, circleG1, circleG2,
                   circleTopN, circleLayout>>

setCircleTopN(n) ==
    /\ circleTopN' = n
    /\ UNCHANGED <<lines, sessionPart, circleScale, circleG1, circleG2,
                   circleFixedSeconds, circleLayout>>

setCircleLayout(layout) ==
    /\ circleLayout' = layout
    /\ UNCHANGED <<lines, sessionPart, circleScale, circleG1, circleG2,
                   circleFixedSeconds, circleTopN>>

\* the settings store as created
DefaultSettings ==
    /\ circleScale = "piecewise"
    /\ circleG1 = 3000
    /\ circleG2 = 15000
    /\ circleFixedSeconds = 30000
    /\ circleTopN = 0
    /\ circleLayout = "circle"

----------------------------------------------------------------------------
(* Specifications *)

\* The gap reconstruction: no timing data yet, default settings; the feed
\* replaces lines and the session part.
Init ==
    /\ lines = EmptyMap
    /\ sessionPart = None
    /\ DefaultSettings

FeedLine == \E rn \in RacingNumbers : \E d \in GapLines(rn) : UpdateLine(rn, d)

FeedSessionPart == \E sp \in SessionParts : UpdateSessionPart(sp)

Next == FeedLine \/ FeedSessionPart

Spec == Init /\ [][Next]_vars

\* The scale mapping in every mode: a grid of cars with direct gaps, every
\* setting changed by its setter.
InitScale ==
    /\ lines = BlankGrid
    /\ sessionPart = None
    /\ DefaultSettings

FeedGap == \E rn \in RacingNumbers : \E d \in ScaleLines(rn) : UpdateLine(rn, d)

ChooseScale == \E mode \in ScaleModes : setCircleScale(mode)

ChooseG1 == \E g1 \in G1Settings : setCircleG1(g1)

ChooseG2 == \E g2 \in G2Settings : setCircleG2(g2)

ChooseFixed == \E sec \in FixedSettings : setCircleFixedSeconds(sec)

ChooseTopN == \E n \in TopNSettings : setCircleTopN(n)

ChooseLayout == \E layout \in Layouts : setCircleLayout(layout)

NextScale ==
    \/ FeedGap
    \/ ChooseScale
    \/ ChooseG1
    \/ ChooseG2
    \/ ChooseFixed
    \/ ChooseTopN
    \/ ChooseLayout

SpecScale == InitScale /\ [][NextScale]_vars

\* The spread mode: a grid of cars with direct gaps and lap times; the feed
\* replaces lines, the Top N cutoff and the layout change.
InitSpread ==
    /\ lines = BlankGrid
    /\ sessionPart = None
    /\ circleScale = "spread"
    /\ circleG1 = 3000
    /\ circleG2 = 15000
    /\ circleFixedSeconds = 30000
    /\ circleTopN = 0
    /\ circleLayout = "circle"

FeedSpread == \E rn \in RacingNumbers : \E d \in SpreadLines(rn) : UpdateLine(rn, d)

NextSpread == FeedSpread \/ ChooseTopN \/ ChooseLayout

SpecSpread == InitSpread /\ [][NextSpread]_vars

\* The scale mapping with a field of four cars, racing number 44 running
\* fourth: every car with a direct gap or none, the scale mode, the thresholds,
\* the fixed seconds and the layout changed by their setters.
FieldNumbers == RacingNumbers \cup {44}

FieldGrid ==
    [rn \in FieldNumbers |-> Signals(rn, PositionOf(rn), None, None, None, None, None)]

InitField ==
    /\ lines = FieldGrid
    /\ sessionPart = None
    /\ DefaultSettings

FeedField == \E rn \in FieldNumbers : \E d \in ScaleLines(rn) : UpdateLine(rn, d)

NextField ==
    \/ FeedField
    \/ ChooseScale
    \/ ChooseG1
    \/ ChooseG2
    \/ ChooseFixed
    \/ ChooseLayout

SpecField == InitField /\ [][NextField]_vars

\* The driver order: no timing data at first; the feed replaces lines whose
\* position is absent, empty, or a number of one or two digits.
Positions ==
    {None, Some(<<>>), Some(<<"0">>), Some(<<"1">>), Some(<<"2">>), Some(<<"9">>),
     Some(<<"1", "0">>), Some(<<"0", "2">>)}

OrderLines(rn) == {Signals(rn, p, None, None, None, None, None) : p \in Positions}

InitOrder ==
    /\ lines = EmptyMap
    /\ sessionPart = None
    /\ DefaultSettings

FeedPosition == \E rn \in RacingNumbers : \E d \in OrderLines(rn) : UpdateLine(rn, d)

NextOrder == FeedPosition

SpecOrder == InitOrder /\ [][NextOrder]_vars

\* The parsers: a snapshot in which the line of car 1 carries a gap string or
\* a last lap time string, drawn from the parser inputs; the layout decides
\* which component renders it.
ParseLines ==
    {Signals(1, PositionOf(1), s, None, None, None, None) : s \in InputValues}
    \cup {Line(1, PositionOf(1), None, None, None, None, None, s, None) :
             s \in InputValues}

InitParse ==
    /\ lines \in {MapSet(BlankGrid, 1, d) : d \in ParseLines}
    /\ sessionPart = None
    /\ DefaultSettings

NextParse == ChooseLayout

SpecParse == InitParse /\ [][NextParse]_vars

----------------------------------------------------------------------------
(* Properties of the gap reconstruction (specification Spec) *)

\* the drivers in rank order and the gap map the components compute from the
\* current snapshot
Ordered == getDriverOrder(lines)

Gaps == computeGapsSeconds(Ordered, sessionPart)

\* the first value of a sequence of optional values that is present
FirstParsed(cands) ==
    IF \E i \in 1..Len(cands) : cands[i] # None
    THEN cands[CHOOSE i \in 1..Len(cands) :
                   cands[i] # None /\ \A j \in 1..(i - 1) : cands[j] = None]
    ELSE None

\* stats[max(0, sessionPart - 1)] whenever a sessionPart is given, 0 included
StatsEntryWhenGiven(d, sp) ==
    IF sp # None /\ d.stats # None /\ Max(0, sp[1] - 1) + 1 <= Len(d.stats[1])
    THEN Some(d.stats[1][Max(0, sp[1] - 1) + 1])
    ELSE None

\* the three direct candidates of a driver, in the stated order
DirectCandidates(d, sp) ==
    LET e == StatsEntryWhenGiven(d, sp)
    IN  << parseSeconds(d.gapToLeader),
           IF e # None THEN parseSeconds(e[1].timeDiffToFastest) ELSE None,
           parseSeconds(d.timeDiffToFastest) >>

\* the three interval-ahead candidates of a driver, in the stated order
IntervalCandidates(d, sp) ==
    LET e == StatsEntryWhenGiven(d, sp)
    IN  << parseSeconds(d.intervalToPositionAhead),
           IF e # None THEN parseSeconds(e[1].timeDifftoPositionAhead) ELSE None,
           parseSeconds(d.timeDiffToPositionAhead) >>

\* C1: for every non-empty ordered driver list and every sessionPart, the gap
\* map holds exactly 0 for the first driver, whatever signals that driver
\* carries.
C1_LeaderGapIsZero ==
    LET ord == Ordered
        gps == Gaps
    IN  Len(ord) > 0 =>
            /\ ord[1].racingNumber \in DOMAIN gps
            /\ gps[ord[1].racingNumber] = 0

\* A leader whose own gapToLeader parses to a negative value and whose
\* interval parses to a positive one, with other drivers behind it and a
\* session part given; its gap is 0.
C1_Witness ==
    LET ord == Ordered
        gps == Gaps
    IN  /\ Len(ord) = 3
        /\ sessionPart # None
        /\ parseSeconds(ord[1].gapToLeader) # None
        /\ parseSeconds(ord[1].gapToLeader)[1] < 0
        /\ parseSeconds(ord[1].intervalToPositionAhead) # None
        /\ parseSeconds(ord[1].intervalToPositionAhead)[1] > 0
        /\ gps[ord[1].racingNumber] = 0

\* C2: the gap map holds exactly one entry per ordered driver, every value in
\* it is >= 0, and the empty list gives the empty map.
C2_OneNonNegativeEntryPerDriver ==
    LET ord == Ordered
        gps == Gaps
    IN  /\ DOMAIN gps = {ord[i].racingNumber : i \in 1..Len(ord)}
        /\ Cardinality(DOMAIN gps) = Len(ord)
        /\ \A rn \in DOMAIN gps : gps[rn] >= 0
        /\ (Len(ord) = 0 => gps = EmptyMap)

\* Three ordered drivers, one with a negative direct value and one resolved by
\* the chain with a negative interval; both are recorded as 0.
C2_Witness ==
    LET ord == Ordered
        gps == Gaps
    IN  /\ Len(ord) = 3
        /\ \E i \in 2..3 :
              /\ getGapToLeaderSeconds(ord[i], sessionPart) # None
              /\ getGapToLeaderSeconds(ord[i], sessionPart)[1] < 0
              /\ gps[ord[i].racingNumber] = 0
        /\ \E i \in 2..3 :
              /\ getGapToLeaderSeconds(ord[i], sessionPart) = None
              /\ getIntervalAheadSeconds(ord[i], sessionPart) # None
              /\ getIntervalAheadSeconds(ord[i], sessionPart)[1] < 0
              /\ gps[ord[i].racingNumber] = 0

\* C3: for every non-leader driver the direct gap is the first value that
\* parses among gapToLeader, the timeDiffToFastest of
\* stats[max(0, sessionPart-1)] whenever a sessionPart is given (0 included),
\* and the flat timeDiffToFastest; when one parses the driver's gap is
\* max(0, value), whatever the interval-ahead signals are.
C3_DirectPriority ==
    LET ord == Ordered
        gps == Gaps
    IN  \A i \in 2..Len(ord) :
            LET first == FirstParsed(DirectCandidates(ord[i], sessionPart))
            IN  first # None => gps[ord[i].racingNumber] = Max(0, first[1])

\* C4: for every driver at rank i > 1 whose three direct candidates all fail
\* to parse, the gap is max(0, g + step): g the recorded gap of the driver at
\* rank i-1, step the first value that parses among
\* intervalToPositionAhead.value, stats[max(0, sessionPart-1)]
\* .timeDifftoPositionAhead and the flat timeDiffToPositionAhead, or 0.
C4_ChainedFallback ==
    LET ord == Ordered
        gps == Gaps
    IN  \A i \in 2..Len(ord) :
            LET step == FirstParsed(IntervalCandidates(ord[i], sessionPart))
            IN  FirstParsed(DirectCandidates(ord[i], sessionPart)) = None =>
                    gps[ord[i].racingNumber] =
                        Max(0, gps[ord[i - 1].racingNumber]
                               + (IF step # None THEN step[1] ELSE 0))

----------------------------------------------------------------------------
(* Properties of the scale mapping (specifications SpecScale, SpecSpread) *)

\* the component the dashboard page mounts
VerticalMounted == circleLayout = "vertical"

CircleMounted == circleLayout = "circle"

\* gaps at which the mapping is probed, besides the gaps of the snapshot and
\* the effective thresholds (ms)
ProbeGaps == {-1000, 0, 250, 500, 750, 1000, 1500, 2000, 3000, 4000, 5000, 5500,
              9000, 15000, 20000, 30000, 40000, 90000, 100000}

\* the gaps of the visible drivers
DotGaps(ds) == {ds[i].gap : i \in 1..Len(ds)}

\* min(1, n / d) for d > 0
UnitOf(n, d) == RMin(RInt(1), Rat(n, d))

\* a fraction of the full turn, in degrees
Degrees(u) == RMul(u, RInt(360))

\* the two-segment mapping for thresholds g1 < g2: first / den of the range
\* for the first segment, second / den for the second, top / den beyond
PiecewiseOf(g, g1, g2, first, second, top, den) ==
    IF g <= 0 THEN RInt(0)
    ELSE IF g <= g1 THEN Rat(first * g, den * g1)
    ELSE IF g <= g2
    THEN Rat(first * (g2 - g1) + second * (g - g1), den * (g2 - g1))
    ELSE Rat(top, den)

\* C5: in piecewise mode with effective thresholds G1 < G2 the raw unit of a
\* gap g is 0 for g <= 0, 0.7*g/G1 up to G1, 0.7 + 0.3*(g-G1)/(G2-G1) up to G2
\* and 1 beyond; it is exactly 0.7 at G1 and exactly 1 at G2; the Circle's
\* angle is the same formula with 240, 120 and 360 degrees.
C5_PiecewiseSegments ==
    circleScale = "piecewise" =>
        /\ VerticalMounted =>
              LET v == VerticalOfDoom
                  u(g) == mapGapToUnit(g, circleScale, v.G1, v.G2,
                                       circleFixedSeconds, v.spreadSeconds)
              IN  /\ v.G1 < v.G2
                  /\ u(v.G1) = Rat(7, 10)
                  /\ u(v.G2) = RInt(1)
                  /\ \A g \in ProbeGaps \cup DotGaps(v.dots) :
                        u(g) = PiecewiseOf(g, v.G1, v.G2, 7, 3, 10, 10)
        /\ CircleMounted =>
              LET c == CircleOfDoom
                  a(g) == mapGapToAngle(g, circleScale, c.G1, c.G2,
                                        circleFixedSeconds, c.spreadSeconds)
              IN  /\ c.G1 < c.G2
                  /\ a(c.G1) = RInt(240)
                  /\ a(c.G2) = RInt(360)
                  /\ \A g \in ProbeGaps \cup DotGaps(c.dots) :
                        a(g) = PiecewiseOf(g, c.G1, c.G2, 240, 120, 360, 1)

\* Piecewise mode in the Vertical component with one visible driver exactly at
\* the effective G1, one exactly at the effective G2 and thresholds that are
\* not the defaults.
C5_Witness ==
    /\ circleScale = "piecewise"
    /\ VerticalMounted
    /\ circleG2 # 15000
    /\ LET v == VerticalOfDoom
       IN  /\ v.G1 \in DotGaps(v.dots)
           /\ v.G2 \in DotGaps(v.dots)

\* the fixed-mode denominator as the claim states it: max(1, fixedSeconds)
FixedDenominatorAsStated == Max(1000, circleFixedSeconds)

\* the fixed-mode denominator with a configured 0 read as the default of 30 s
FixedDenominator ==
    IF circleFixedSeconds = 0 THEN 30000 ELSE Max(1000, circleFixedSeconds)

\* the raw mapping of the mounted component agrees with g / den on every
\* probed gap g > 0
FixedModeMapsBy(den) ==
    /\ VerticalMounted =>
          LET v == VerticalOfDoom
          IN  \A g \in ProbeGaps \cup DotGaps(v.dots) :
                  g > 0 => mapGapToUnit(g, circleScale, v.G1, v.G2,
                                        circleFixedSeconds, v.spreadSeconds)
                           = UnitOf(g, den)
    /\ CircleMounted =>
          LET c == CircleOfDoom
          IN  \A g \in ProbeGaps \cup DotGaps(c.dots) :
                  g > 0 => mapGapToAngle(g, circleScale, c.G1, c.G2,
                                         circleFixedSeconds, c.spreadSeconds)
                           = Degrees(UnitOf(g, den))

\* C6 as stated: in fixed mode the unit of every gap g > 0 is
\* min(1, g / max(1, fixedSeconds)) for every configured fixedSeconds,
\* including 0 and negative values, for which the denominator is 1 second.
C6_AsStated ==
    circleScale = "fixed" => FixedModeMapsBy(FixedDenominatorAsStated)

\* C6 as amended: in fixed mode the unit of every gap g > 0 is min(1, g / D),
\* D = max(1, fixedSeconds) for a configured value other than 0 (so 1 second
\* for negative values and values below 1) and D = 30 seconds for a
\* configured 0.
C6_FixedDenominator ==
    circleScale = "fixed" => FixedModeMapsBy(FixedDenominator)

\* Fixed mode with a configured 0 and a visible driver 3 s behind, which the
\* Vertical component places at 3/30 of the axis.
C6_Witness ==
    /\ circleScale = "fixed"
    /\ circleFixedSeconds = 0
    /\ VerticalMounted
    /\ LET v == VerticalOfDoom
       IN  \E i \in 1..Len(v.dots) : v.dots[i].gap = 3000 /\ v.dots[i].y = Rat(1, 10)

\* the gaps of the first topN drivers in rank order when topN > 0, of all
\* ordered drivers otherwise
VisibleGapSet ==
    LET ord == Ordered
        gps == Gaps
    IN  {gps[ord[i].racingNumber] :
            i \in {j \in 1..Len(ord) : circleTopN > 0 => j <= circleTopN}}

\* M: the largest gap among the visible drivers (0 when there is none)
LargestVisibleGap == CHOOSE m \in VisibleGapSet \cup {0} :
                        \A g \in VisibleGapSet \cup {0} : g <= m

\* the lap of the leader as the Circle reads it: the last lap when it parses
\* as a signed delta above 10 s, else the best lap likewise, else 90 s
LeaderLap ==
    LET ord  == Ordered
        last == IF Len(ord) > 0 THEN parseSeconds(ord[1].lastLapTime) ELSE None
        best == IF Len(ord) > 0 THEN parseSeconds(ord[1].bestLapTime) ELSE None
    IN  IF last # None /\ last[1] > 10000 THEN last[1]
        ELSE IF best # None /\ best[1] > 10000 THEN best[1]
        ELSE 90000

\* the spread denominator of the Vertical component: max(1, M)
VerticalSpreadDenominator == Max(1000, LargestVisibleGap)

\* the spread denominator of the Circle component: M when some visible driver
\* has a positive gap, the lap of the leader otherwise
CircleSpreadDenominator ==
    IF LargestVisibleGap > 0 THEN LargestVisibleGap ELSE LeaderLap

VerticalSpreadMapsBy(den) ==
    VerticalMounted =>
        LET v == VerticalOfDoom
        IN  \A g \in ProbeGaps \cup DotGaps(v.dots) :
                g > 0 => mapGapToUnit(g, circleScale, v.G1, v.G2,
                                      circleFixedSeconds, v.spreadSeconds)
                         = UnitOf(g, den)

CircleSpreadMapsBy(den) ==
    CircleMounted =>
        LET c == CircleOfDoom
        IN  \A g \in ProbeGaps \cup DotGaps(c.dots) :
                g > 0 => mapGapToAngle(g, circleScale, c.G1, c.G2,
                                       circleFixedSeconds, c.spreadSeconds)
                         = Degrees(UnitOf(g, den))

\* C7 as stated: in spread mode, in both components, the unit of every gap
\* g > 0 is min(1, g / max(1, M)), M the largest gap among the visible
\* drivers; the denominator is 1 when no visible driver has a positive gap
\* and when 0 < M < 1.
C7_AsStated ==
    circleScale = "spread" =>
        /\ VerticalSpreadMapsBy(VerticalSpreadDenominator)
        /\ CircleSpreadMapsBy(VerticalSpreadDenominator)

\* C7 as amended: in spread mode the Vertical unit of every gap g > 0 is
\* min(1, g / max(1, M)); the Circle's fraction of the turn is min(1, g / M)
\* when M > 0, without a floor of 1 second, and min(1, g / L) when no visible
\* driver has a positive gap, L the lap of the leader (90 s by default).
C7_SpreadDenominator ==
    circleScale = "spread" =>
        /\ VerticalSpreadMapsBy(VerticalSpreadDenominator)
        /\ CircleSpreadMapsBy(CircleSpreadDenominator)

\* Spread mode in the Circle with a Top N cutoff that hides a larger gap and a
\* largest visible gap of half a second: the driver with that gap is drawn at
\* the end of the turn.
C7_Witness ==
    /\ circleScale = "spread"
    /\ CircleMounted
    /\ circleTopN > 0
    /\ LET c == CircleOfDoom
       IN  /\ Len(c.visible) < Len(c.ordered)
           /\ LargestVisibleGap = 500
           /\ \E i \in 1..Len(c.dots) :
                 c.dots[i].gap = 500 /\ c.dots[i].angle = Rat(3599, 10)
           /\ \E rn \in DOMAIN c.gaps : c.gaps[rn] > 500

\* the largest element of a non-empty set of rationals
RMaxOf(S) == CHOOSE m \in S : \A x \in S : RLe(x, m)

\* the stretch factor for the largest raw value m of the visible drivers,
\* given as a fraction of the range: 1/m when 0 < m < 1, else 1
StretchFor(m) == IF RLt(RInt(0), m) /\ RLt(m, RInt(1)) THEN RInv(m) ELSE RInt(1)

\* C8: in piecewise mode the stretch factor is 1/m when the largest raw unit m
\* among the visible drivers satisfies 0 < m < 1 and 1 otherwise; every
\* visible driver's final coordinate is its raw unit times that factor (under
\* the cap of the component), so whenever some visible driver has a positive
\* gap the visible driver with the largest gap sits at the outer boundary
\* (unit 1, angle 359.9).  In spread and fixed mode no stretch is applied.
C8_Stretch ==
    /\ VerticalMounted =>
          LET v      == VerticalOfDoom
              raw(g) == mapGapToUnit(g, circleScale, v.G1, v.G2,
                                     circleFixedSeconds, v.spreadSeconds)
              m      == RMaxOf({raw(g) : g \in DotGaps(v.dots)} \cup {RInt(0)})
              f      == IF circleScale = "piecewise" THEN StretchFor(m) ELSE RInt(1)
          IN  /\ circleScale = "piecewise" => v.piecewiseStretch = f
              /\ \A i \in 1..Len(v.dots) :
                    /\ v.dots[i].y = RMin(RInt(1), RMul(raw(v.dots[i].gap), f))
                    /\ circleScale = "piecewise" =>
                          v.dots[i].y = RMul(raw(v.dots[i].gap), f)
                    /\ (/\ circleScale = "piecewise"
                        /\ v.dots[i].gap > 0
                        /\ \A g \in DotGaps(v.dots) : g <= v.dots[i].gap)
                       => v.dots[i].y = RInt(1)
    /\ CircleMounted =>
          LET c      == CircleOfDoom
              raw(g) == mapGapToAngle(g, circleScale, c.G1, c.G2,
                                      circleFixedSeconds, c.spreadSeconds)
              m      == RMaxOf({RMul(raw(g), Rat(1, 360)) : g \in DotGaps(c.dots)}
                               \cup {RInt(0)})
              f      == IF circleScale = "piecewise" THEN StretchFor(m) ELSE RInt(1)
          IN  /\ circleScale = "piecewise" => c.piecewiseStretch = f
              /\ \A i \in 1..Len(c.dots) :
                    /\ c.dots[i].angle = RMin(Rat(3599, 10), RMul(raw(c.dots[i].gap), f))
                    /\ (/\ circleScale = "piecewise"
                        /\ c.dots[i].gap > 0
                        /\ \A g \in DotGaps(c.dots) : g <= c.dots[i].gap)
                       => c.dots[i].angle = Rat(3599, 10)

\* Piecewise mode in the Vertical component with a bunched field: the largest
\* raw unit is below 1, the factor is above 1, the driver with the largest gap
\* is not the last one in rank order and sits at 1, and another visible driver
\* is moved by the stretch to a place strictly inside the axis.
C8_Witness ==
    /\ circleScale = "piecewise"
    /\ VerticalMounted
    /\ LET v == VerticalOfDoom
       IN  /\ Len(v.dots) = 3
           /\ RLt(RInt(1), v.piecewiseStretch)
           /\ v.dots[2].gap > v.dots[3].gap
           /\ v.dots[2].y = RInt(1)
           /\ v.dots[3].gap > 0
           /\ RLt(v.dots[3].y, RInt(1))
           /\ v.dots[3].y # mapGapToUnit(v.dots[3].gap, circleScale, v.G1, v.G2,
                                         circleFixedSeconds, v.spreadSeconds)

\* C9: for every snapshot, scale mode and configuration the final coordinate
\* of every rendered driver lies in [0,1] in the Vertical component and in
\* [0,360) in the Circle component; a driver whose gap is <= 0, and in
\* particular the leader, is at coordinate exactly 0.
C9_CoordinateRange ==
    /\ VerticalMounted =>
          LET v == VerticalOfDoom
          IN  /\ \A i \in 1..Len(v.dots) :
                    /\ RLe(RInt(0), v.dots[i].y)
                    /\ RLe(v.dots[i].y, RInt(1))
                    /\ v.dots[i].gap <= 0 => v.dots[i].y = RInt(0)
              /\ Len(v.dots) > 0 => v.dots[1].y = RInt(0)
    /\ CircleMounted =>
          LET c == CircleOfDoom
          IN  /\ \A i \in 1..Len(c.dots) :
                    /\ RLe(RInt(0), c.dots[i].angle)
                    /\ RLt(c.dots[i].angle, RInt(360))
                    /\ c.dots[i].gap <= 0 => c.dots[i].angle = RInt(0)
              /\ Len(c.dots) > 0 => c.dots[1].angle = RInt(0)

\* The Circle in piecewise mode with inverted thresholds, one of them
\* negative: a driver beyond the effective G2 is held below the full turn and
\* the leader is at 0.
C9_Witness ==
    /\ CircleMounted
    /\ circleScale = "piecewise"
    /\ circleG1 > circleG2
    /\ circleG2 < 0
    /\ LET c == CircleOfDoom
       IN  /\ Len(c.dots) = 3
           /\ c.dots[1].angle = RInt(0)
           /\ \E i \in 2..3 : c.dots[i].gap > c.G2 /\ c.dots[i].angle = Rat(3599, 10)

\* the effective denominator of the active mode in each component
VerticalDenominator ==
    IF circleScale = "piecewise" THEN VerticalOfDoom.G2
    ELSE IF circleScale = "fixed" THEN FixedDenominator
    ELSE VerticalSpreadDenominator

CircleDenominator ==
    IF circleScale = "piecewise" THEN CircleOfDoom.G2
    ELSE IF circleScale = "fixed" THEN FixedDenominator
    ELSE CircleSpreadDenominator

\* C10: a visible driver is flagged overMax exactly when its gap is strictly
\* greater than the effective denominator of the active mode; that
\* denominator is the gap at which the mapping of the mode reaches the
\* boundary; a driver whose gap equals it is at the boundary and not flagged.
C10_OverMax ==
    /\ VerticalMounted =>
          LET v      == VerticalOfDoom
              den    == VerticalDenominator
              raw(g) == mapGapToUnit(g, circleScale, v.G1, v.G2,
                                     circleFixedSeconds, v.spreadSeconds)
          IN  /\ den > 0
              /\ \A g \in ProbeGaps \cup DotGaps(v.dots) \cup {den} :
                    (raw(g) = RInt(1)) <=> (g >= den)
              /\ \A i \in 1..Len(v.dots) :
                    /\ v.dots[i].overMax <=> (v.dots[i].gap > den)
                    /\ v.dots[i].gap = den =>
                          v.dots[i].y = RInt(1) /\ ~v.dots[i].overMax
    /\ CircleMounted =>
          LET c      == CircleOfDoom
              den    == CircleDenominator
              raw(g) == mapGapToAngle(g, circleScale, c.G1, c.G2,
                                      circleFixedSeconds, c.spreadSeconds)
          IN  /\ den > 0
              /\ \A g \in ProbeGaps \cup DotGaps(c.dots) \cup {den} :
                    (raw(g) = RInt(360)) <=> (g >= den)
              /\ \A i \in 1..Len(c.dots) :
                    /\ c.dots[i].overMax <=> (c.dots[i].gap > den)
                    /\ c.dots[i].gap = den =>
                          c.dots[i].angle = Rat(3599, 10) /\ ~c.dots[i].overMax

\* Fixed mode in the Vertical component with one visible driver exactly at the
\* denominator, at the boundary and not flagged, and one beyond it, flagged.
C10_Witness ==
    /\ circleScale = "fixed"
    /\ VerticalMounted
    /\ LET v == VerticalOfDoom
       IN  /\ \E i \in 1..Len(v.dots) :
                 /\ v.dots[i].gap = VerticalDenominator
                 /\ v.dots[i].y = RInt(1)
                 /\ ~v.dots[i].overMax
           /\ \E i \in 1..Len(v.dots) :
                 /\ v.dots[i].gap > VerticalDenominator
                 /\ v.dots[i].overMax

----------------------------------------------------------------------------
(* Properties of the parsers (specification SpecParse) *)

\* the gap string and the last lap time string of car 1 in the snapshot
DeltaInput == lines[1].gapToLeader

LapInput == lines[1].lastLapTime

\* the stated grammar, written over positions of the string
GrammarDigits == {"0", "1", "2", "3", "4", "5", "6", "7", "8", "9"}

AllDigits(v, a, b) == a <= b /\ \A i \in a..b : v[i] \in GrammarDigits

\* the positions up to which v, from position a on, is <1..maxInt digits> with
\* an optional '.' and one to three digits, ending where v ends
SecondsShapeFrom(v, a, maxInt) ==
    \E n \in a..Len(v) :
        /\ n - a + 1 <= maxInt
        /\ AllDigits(v, a, n)
        /\ \/ n = Len(v)
           \/ /\ n + 1 < Len(v)
              /\ v[n + 1] = "."
              /\ Len(v) - (n + 1) <= 3
              /\ AllDigits(v, n + 2, Len(v))

\* digits ':' one-or-two digits [ '.' one-to-three digits ], from position a
MinutesShapeFrom(v, a) ==
    \E c \in (a + 1)..Len(v) :
        v[c] = ":" /\ AllDigits(v, a, c - 1) /\ SecondsShapeFrom(v, c + 1, 2)

UnsignedGrammar(v) == MinutesShapeFrom(v, 1) \/ SecondsShapeFrom(v, 1, Len(v))

SignedGrammar(s) ==
    /\ Len(s) >= 2
    /\ s[1] \in {"+", "-"}
    /\ MinutesShapeFrom(s, 2) \/ SecondsShapeFrom(s, 2, Len(s))

\* the string without its leading and trailing white space, by positions
Trimmed(s) ==
    LET inked == {i \in 1..Len(s) : s[i] \notin {" ", "\t", "\n"}}
    IN  IF inked = {} THEN <<>>
        ELSE SubSeq(s, CHOOSE i \in inked : \A j \in inked : i <= j,
                       CHOOSE i \in inked : \A j \in inked : i >= j)

\* C11: parseSeconds returns a number exactly when its input is present and
\* its trimmed text is a sign followed by one of the two stated shapes; every
\* other input (absent, empty, unsigned, lap-behind, four fraction digits,
\* anything else) gives no value.  The result is always one of the two: a
\* one-element or an empty optional.
C11_AcceptsOnlySignedGrammar ==
    LET r == parseSeconds(DeltaInput)
    IN  /\ r = None \/ (Len(r) = 1 /\ r[1] \in Int)
        /\ r # None <=> (DeltaInput # None /\ SignedGrammar(Trimmed(DeltaInput[1])))

C11_Witness ==
    /\ DeltaInput = Some(<<" ", "+", "1", ":", "0", "2", ".", "5", "0", "0", " ">>)
    /\ parseSeconds(DeltaInput) # None

\* the number written by the digits v[a..b], read left to right
PlaceValue(v, a, b) ==
    LET digit == [c \in GrammarDigits |->
                    CASE c = "0" -> 0 [] c = "1" -> 1 [] c = "2" -> 2
                      [] c = "3" -> 3 [] c = "4" -> 4 [] c = "5" -> 5
                      [] c = "6" -> 6 [] c = "7" -> 7 [] c = "8" -> 8
                      [] c = "9" -> 9]
        upTo[k \in (a - 1)..b] ==
            IF k < a THEN 0 ELSE 10 * upTo[k - 1] + digit[v[k]]
    IN  upTo[b]

\* sign * (minutes*60000 + seconds*1000 + F) of a string of the signed
\* grammar, F being the fraction digits right-padded with zeros to three
StatedMs(s) ==
    LET colons == {k \in 1..Len(s) : s[k] = ":"}
        dots   == {k \in 1..Len(s) : s[k] = "."}
        c      == CHOOSE k \in colons : TRUE
        d      == CHOOSE k \in dots : TRUE
        start  == IF colons = {} THEN 2 ELSE c + 1
        whole  == IF dots = {} THEN Len(s) ELSE d - 1
        mins   == IF colons = {} THEN 0 ELSE PlaceValue(s, 2, c - 1)
        secs   == PlaceValue(s, start, whole)
        places == Len(s) - d
        frac   == IF dots = {} THEN 0
                  ELSE PlaceValue(s, d + 1, Len(s))
                       * (CASE places = 1 -> 100 [] places = 2 -> 10 [] OTHER -> 1)
        sign   == IF s[1] = "-" THEN -1 ELSE 1
    IN  sign * (mins * 60000 + secs * 1000 + frac)

\* C12: whenever parseSeconds returns a number, it is
\* sign * (minutes*60000 + seconds*1000 + F) milliseconds, with F the fraction
\* digits right-padded to three, minutes 0 without a ':' and sign -1 for '-',
\* +1 for '+'; "+1:02.500" gives 62500 ms and "-0.250" gives -250 ms.
C12_ParsedValue ==
    LET r == parseSeconds(DeltaInput)
    IN  /\ r # None => r = Some(StatedMs(Trimmed(DeltaInput[1])))
        /\ DeltaInput = StrMinute => r = Some(62500)
        /\ DeltaInput = Some(<<"-", "0", ".", "2", "5", "0">>) => r = Some(-250)
        /\ DeltaInput = Some(<<"+", "0", ".", "5">>) => r = Some(500)
        /\ DeltaInput = Some(<<"+", "0", ".", "0", "5">>) => r = Some(50)

C12_Witness ==
    /\ DeltaInput = Some(<<"-", "1", ":", "0", "2", ".", "0", "5">>)
    /\ parseSeconds(DeltaInput) = Some(-62050)

----------------------------------------------------------------------------
(* Properties of the effective thresholds (specification SpecScale) *)

\* a number of the mapping is defined: a ratio of integers with a positive
\* denominator
DefinedNumber(u) == u[1] \in Int /\ u[2] \in Int /\ u[2] > 0

\* C13: for every configured pair of thresholds (zero, negative, equal and
\* inverted pairs included) the effective thresholds of both components
\* satisfy G1 >= 0.5 s and G2 >= G1 + 0.5 s, so G1 < G2 and neither G1 nor
\* G2 - G1 is zero, and the piecewise unit / angle of every non-negative gap is
\* a defined number; configured G1 = 20, G2 = 5 gives effective 5 and 5.5.
C13_ThresholdsWellFormed ==
    LET v == VerticalOfDoom
        c == CircleOfDoom
    IN  /\ v.G1 >= 500 /\ v.G2 >= v.G1 + 500
        /\ c.G1 >= 500 /\ c.G2 >= c.G1 + 500
        /\ v.G1 < v.G2 /\ v.G1 # 0 /\ v.G2 - v.G1 # 0
        /\ c.G1 < c.G2 /\ c.G1 # 0 /\ c.G2 - c.G1 # 0
        /\ (circleG1 = 20000 /\ circleG2 = 5000) =>
              (v.G1 = 5000 /\ v.G2 = 5500 /\ c.G1 = 5000 /\ c.G2 = 5500)
        /\ \A g \in {x \in ProbeGaps \cup DotGaps(v.dots) \cup {v.G1, v.G2} : x >= 0} :
              /\ DefinedNumber(mapGapToUnit(g, "piecewise", v.G1, v.G2,
                                            circleFixedSeconds, v.spreadSeconds))
              /\ DefinedNumber(mapGapToAngle(g, "piecewise", c.G1, c.G2,
                                             circleFixedSeconds, c.spreadSeconds))
        /\ circleScale = "piecewise" =>
              /\ DefinedNumber(v.piecewiseStretch)
              /\ DefinedNumber(c.piecewiseStretch)
              /\ \A i \in 1..Len(v.dots) : DefinedNumber(v.dots[i].y)
              /\ \A i \in 1..Len(c.dots) : DefinedNumber(c.dots[i].angle)

\* Piecewise mode with the inverted pair G1 = 20, G2 = 5 configured, the
\* effective thresholds 5 and 5.5, and a visible driver exactly at the
\* effective G1.
C13_Witness ==
    /\ circleScale = "piecewise"
    /\ circleG1 = 20000
    /\ circleG2 = 5000
    /\ LET v == VerticalOfDoom
       IN  /\ v.G1 = 5000
           /\ v.G2 = 5500
           /\ 5000 \in DotGaps(v.dots)

\* x clamped into [lo, hi]: unchanged inside the range, the nearest bound
\* outside it (the lower bound when the range is empty)
ClampInto(x, lo, hi) ==
    IF lo > hi THEN lo
    ELSE IF x < lo THEN lo
    ELSE IF x > hi THEN hi
    ELSE x

\* x raised to at least lo
RaiseTo(x, lo) == IF x < lo THEN lo ELSE x

\* the thresholds the clamping starts from: the configured value, the default
\* (3 s, 15 s) in place of a configured 0
G1Configured == IF circleG1 = 0 THEN 3000 ELSE circleG1

G2Configured == IF circleG2 = 0 THEN 15000 ELSE circleG2

\* the thresholds of both components are the clamping of g1c and g2c
ThresholdsClamp(g1c, g2c) ==
    LET v == VerticalOfDoom
        c == CircleOfDoom
    IN  /\ v.G1 = ClampInto(g1c, 500, g2c)
        /\ v.G2 = RaiseTo(g2c, v.G1 + 500)
        /\ c.G1 = ClampInto(g1c, 500, g2c)
        /\ c.G2 = RaiseTo(g2c, c.G1 + 500)

\* C14 as stated: the effective G1 is the configured G1 clamped into
\* [0.5, configured G2] and the effective G2 the configured G2 raised to at
\* least effective G1 + 0.5, for every configured value including 0.
C14_AsStated == ThresholdsClamp(circleG1, circleG2)

\* C14, amended: the same clamping, applied to the configured values with the
\* default (3 s for G1, 15 s for G2) standing in for a configured 0; negative
\* values are clamped as stated.
C14_EffectiveThresholds == ThresholdsClamp(G1Configured, G2Configured)

\* A configured G1 of 0 with a configured G2 of 5: the effective G1 is the
\* default 3 s, not the lower bound 0.5 s.
C14_Witness ==
    /\ circleG1 = 0
    /\ circleG2 = 5000
    /\ VerticalOfDoom.G1 = 3000
    /\ CircleOfDoom.G1 = 3000
    /\ VerticalOfDoom.G2 = 5000

----------------------------------------------------------------------------
(* Properties of the driver order (specification SpecOrder) *)

\* the racing numbers of the snapshot whose line has a non-empty position
Positioned ==
    {rn \in DOMAIN lines : lines[rn].position # None /\ lines[rn].position[1] # <<>>}

\* the position of a line as a number
NumericPosition(d) == PlaceValue(d.position[1], 1, Len(d.position[1]))

\* C15: getDriverOrder returns exactly the drivers of the snapshot that have a
\* non-empty position, each once and each as the snapshot holds it, arranged
\* so that the numeric position never decreases along the list; drivers
\* without a position do not appear and a snapshot without lines gives the
\* empty list.
C15_DriverOrder ==
    LET r == getDriverOrder(lines)
    IN  /\ Len(r) = Cardinality(Positioned)
        /\ {r[i].racingNumber : i \in 1..Len(r)} = Positioned
        /\ \A i \in 1..Len(r) : r[i] = lines[r[i].racingNumber]
        /\ \A i, j \in 1..Len(r) :
              i < j => NumericPosition(r[i]) <= NumericPosition(r[j])
        /\ lines = EmptyMap => r = <<>>

\* Car 1 runs tenth, car 4 ninth and car 16 has a line without a position:
\* the order is car 4, car 1.
C15_Witness ==
    /\ DOMAIN lines = RacingNumbers
    /\ lines[1].position = Some(<<"1", "0">>)
    /\ lines[4].position = Some(<<"9">>)
    /\ lines[16].position = None
    /\ LET r == getDriverOrder(lines)
       IN  Len(r) = 2 /\ r[1].racingNumber = 4 /\ r[2].racingNumber = 1

----------------------------------------------------------------------------
(* The lap time parser against the gap parser (specification SpecParse) *)

\* the last lap time string is present and does not begin with a sign
UnsignedLapInput ==
    LapInput # None /\ (LapInput[1] = <<>> \/ LapInput[1][1] \notin {"+", "-"})

\* C16 as stated: for every unsigned string s, parseLapTimeToSeconds(s) is
\* parseSeconds('+' + s).
C16_AsStated ==
    UnsignedLapInput =>
        parseLapTimeToSeconds(LapInput) = parseSeconds(Some(<<"+">> \o LapInput[1]))

\* C16, amended: for every string s, parseLapTimeToSeconds(s) is
\* parseSeconds('+' + t), t being s without its surrounding white space: the
\* same number when t is of the minutes:seconds[.fraction] or
\* seconds[.fraction] grammar, no value otherwise; and it is
\* parseSeconds('+' + s) itself when s has no leading white space.
C16_LapTimeAsSignedDelta ==
    LapInput # None =>
        LET s == LapInput[1]
            r == parseLapTimeToSeconds(LapInput)
        IN  /\ r = parseSeconds(Some(<<"+">> \o Trimmed(s)))
            /\ r # None <=> UnsignedGrammar(Trimmed(s))
            /\ (s = <<>> \/ s[1] \notin {" ", "\t", "\n"}) =>
                  r = parseSeconds(Some(<<"+">> \o s))

\* The lap time " 1:02.5", with a leading blank: parseLapTimeToSeconds gives
\* 62.5 s and parseSeconds("+ 1:02.5") gives no value.
C16_Witness ==
    /\ LapInput = Some(<<" ", "1", ":", "0", "2", ".", "5">>)
    /\ parseLapTimeToSeconds(LapInput) = Some(62500)
    /\ parseSeconds(Some(<<"+">> \o LapInput[1])) = None

----------------------------------------------------------------------------
(* Ticks against dots (specification SpecScale) *)

\* the ticks one render of each component draws
VerticalTicks ==
    LET v == VerticalOfDoom
    IN  ticks(circleScale, v.G1, v.G2, circleFixedSeconds, v.spreadSeconds,
              v.piecewiseStretch)

CircleTicks ==
    LET c == CircleOfDoom
    IN  circleTicks(circleScale, c.G1, c.G2, circleFixedSeconds, c.spreadSeconds,
                    c.piecewiseStretch)

\* a tick of VerticalOfDoom and a visible driver at the same seconds are at
\* the same unit
VerticalTicksMatchDots ==
    LET v  == VerticalOfDoom
        tk == VerticalTicks
    IN  \A i \in 1..Len(tk) : \A k \in 1..Len(v.dots) :
            v.dots[k].gap = tk[i].sec => v.dots[k].y = tk[i].y

\* a tick of CircleOfDoom and a visible driver at the same seconds are at the
\* same angle
CircleTicksMatchDots ==
    LET c  == CircleOfDoom
        tk == CircleTicks
    IN  \A i \in 1..Len(tk) : \A k \in 1..Len(c.dots) :
            c.dots[k].gap = tk[i].sec => c.dots[k].angle = tk[i].angle

\* C17: in every scale mode and in both components, an axis tick drawn for s
\* seconds and a visible driver whose gap is exactly s seconds have the same
\* final coordinate, also when s is the largest visible gap or reaches the
\* effective denominator.
C17_TicksMatchDots ==
    /\ VerticalMounted => VerticalTicksMatchDots
    /\ CircleMounted => CircleTicksMatchDots

----------------------------------------------------------------------------
(* Order of the coordinates (specification SpecScale) *)

\* C18: in every snapshot, scale mode and configuration, for any two visible
\* drivers a and b with gap(a) <= gap(b) the final coordinate of a (after
\* stretch and clamp) is at most that of b, in the Vertical and in the Circle
\* component.
C18_CoordinatesFollowGaps ==
    /\ VerticalMounted =>
          LET v == VerticalOfDoom
          IN  \A i, k \in 1..Len(v.dots) :
                  v.dots[i].gap <= v.dots[k].gap => RLe(v.dots[i].y, v.dots[k].y)
    /\ CircleMounted =>
          LET c == CircleOfDoom
          IN  \A i, k \in 1..Len(c.dots) :
                  c.dots[i].gap <= c.dots[k].gap =>
                      RLe(c.dots[i].angle, c.dots[k].angle)

\* Piecewise mode in the Vertical component, stretched, with four visible
\* drivers: one in the first segment and one in the second, both nearer to
\* the leader than the last one, the nearer strictly above the farther and
\* both strictly inside the axis.
C18_Witness ==
    /\ circleScale = "piecewise"
    /\ VerticalMounted
    /\ LET v == VerticalOfDoom
       IN  /\ Len(v.dots) = 4
           /\ v.piecewiseStretch # RInt(1)
           /\ \E i, k, m \in 1..Len(v.dots) :
                 /\ 0 < v.dots[i].gap
                 /\ v.dots[i].gap <= v.G1
                 /\ v.G1 < v.dots[k].gap
                 /\ v.dots[k].gap < v.dots[m].gap
                 /\ RLt(v.dots[i].y, v.dots[k].y)
                 /\ RLt(v.dots[k].y, RInt(1))

====
